---- MODULE Spec2Model ----
(***************************************************************************)
(* Model of magento-graphql-docs-mcp: the markdown parser (parser.py), the *)
(* ingestion coordinator (ingest.py) and the query layer (server.py).      *)
(*                                                                         *)
(* Representation:                                                         *)
(*  - a path is the tuple of its segments; str(path) is that tuple, which  *)
(*    is what joining the segments with "/" determines;                    *)
(*  - a markdown body is a sequence of lines [k, t]: k is the shape of the *)
(*    stripped line ("fence" starts with three backticks, "head" with #,   *)
(*    "blank" is empty, "text" is anything else) and t its tokens;         *)
(*  - a file time is a number of ticks, TicksPerMicro ticks to the         *)
(*    microsecond; an ISO-8601 string is the number of microseconds it     *)
(*    renders;                                                             *)
(*  - Python's None and SQL's NULL are the value NULL.                     *)
(***************************************************************************)
EXTENDS Integers, Sequences, FiniteSets, TLC

\* ------------------------------------------------------------------ bounds
\* Largest file modification time, in ticks.
MaxMtime == 2
\* Resolution of a file time: ticks per microsecond of the ISO rendering.
TicksPerMicro == 2
\* Number of changes the environment makes to the documentation tree.
MaxEdits == 2
\* Full-text hits up to this number are ranked in every order.
MaxPermuted == 4
\* The largest number of pages of a tree that is searched.
MaxPages == 11
\* The largest number of tokens of a code body handed to the extraction.
MaxCodeLen == 4

\* ------------------------------------------------------- program constants
MAX_FIELDS_PER_ELEMENT == 20
DB_TOP_K == 5
SEARCH_RESULT_MULTIPLIER == 2

NULL == "<NULL>"
DocsRoot == "<DOCS_PATH>"

\* ------------------------------------------------------------- small helpers
Range(s) == {s[i] : i \in 1..Len(s)}

RECURSIVE Flatten(_)
Flatten(ss) == IF ss = <<>> THEN <<>> ELSE Head(ss) \o Flatten(Tail(ss))

RECURSIVE SelectSeqBy(_, _)
\* the subsequence of s of the elements in the set keep
SelectSeqBy(s, keep) ==
    IF s = <<>> THEN <<>>
    ELSE IF Head(s) \in keep THEN <<Head(s)>> \o SelectSeqBy(Tail(s), keep)
    ELSE SelectSeqBy(Tail(s), keep)

SetMin(S) == CHOOSE x \in S : \A y \in S : x <= y
SetMax(S) == CHOOSE x \in S : \A y \in S : y <= x

Take(s, n) == SubSeq(s, 1, IF Len(s) < n THEN Len(s) ELSE n)

\* ------------------------------------------------------------ the corpus
IndexMd == <<"index.md">>
ProductsMd == <<"schema", "products", "queries", "products.md">>

TypesMd == <<"schema", "products", "types.md">>
Step1Md == <<"tutorials", "checkout", "step1.md">>
Step2Md == <<"tutorials", "checkout", "step2.md">>
Step10Md == <<"tutorials", "checkout", "step10.md">>
MissingMd == <<"missing.md">>
ReleaseNotesMd == <<"release-notes.md">>
SchemaIndexMd == <<"schema", "index.md">>
SchemaOverviewMd == <<"schema", "overview.md">>
CartMd == <<"schema", "cart", "reference.md">>

\* Pages outside schema and tutorials, all present or all absent in a tree.
OtherPages == {<<"payment-methods", "Reference", "braintree.md">>,
               <<"payment-methods", "braintree.md">>,
               <<"develop", "reference.md">>,
               <<"usage", "reference.md">>}

\* The relative paths of the trees get_related_documents is exercised on.
RelatedPaths == {IndexMd, ReleaseNotesMd, SchemaIndexMd, SchemaOverviewMd,
                 ProductsMd, TypesMd, CartMd, Step1Md} \cup OtherPages

\* The relative paths a documentation tree of the model can hold.
Paths == {IndexMd, ProductsMd}

\* The relative paths of the trees the query layer is exercised on.
QueryPaths == {IndexMd, ProductsMd, TypesMd, Step1Md, Step2Md, Step10Md}

\* The pages of a larger tree: the i-th page lies under schema/products or
\* under tutorials/checkout.
PageNames == <<"p01.md", "p02.md", "p03.md", "p04.md", "p05.md", "p06.md",
               "p07.md", "p08.md", "p09.md", "p10.md", "p11.md", "p12.md">>
PagePath(category, i) ==
    IF category = "schema" THEN <<"schema", "products", PageNames[i]>>
    ELSE <<"tutorials", "checkout", PageNames[i]>>

\* The order in which rglob lists a tree.
WalkOrder ==
    <<IndexMd, Step2Md, ProductsMd, Step10Md, TypesMd, Step1Md,
      SchemaOverviewMd, CartMd, ReleaseNotesMd, SchemaIndexMd,
      <<"usage", "reference.md">>, <<"payment-methods", "braintree.md">>,
      <<"payment-methods", "Reference", "braintree.md">>, <<"develop", "reference.md">>>>
    \o Flatten([i \in 1..Len(PageNames) |->
                  <<PagePath("schema", i), PagePath("tutorials", i)>>])

\* The paths of the model in the order of their strings (ORDER BY file_path).
SortedPaths == <<IndexMd, MissingMd, ProductsMd, TypesMd, Step1Md, Step10Md, Step2Md>>

Fence(tag) == [k |-> "fence", t |-> <<tag>>]
Text(toks) == [k |-> "text", t |-> toks]
Heading(toks) == [k |-> "head", t |-> toks]
Blank == [k |-> "blank", t |-> <<>>]

\* File contents: front matter (title, description, keywords) and body lines.
\* A title is a sequence of words, <<>> when the front matter has none.
\* ok = FALSE is a file that cannot be read or whose front matter is malformed.
ContentPlain ==
    [ok |-> TRUE, title |-> <<>>, description |-> NULL, keywords |-> <<>>,
     lines |-> <<Heading(<<"Overview">>), Blank, Text(<<"GraphQL", "overview">>)>>]

ContentGql ==
    [ok |-> TRUE, title |-> <<"Products Query">>, description |-> "products query",
     keywords |-> <<"products">>,
     lines |-> <<Text(<<"Example", "request">>),
                 Fence("graphql"),
                 Text(<<"query", "products", "{", "items", "{", "sku", "name", "}", "}">>),
                 Fence("")>>]

ContentTypes ==
    [ok |-> TRUE, title |-> <<>>, description |-> NULL,
     keywords |-> <<"products", "types">>,
     lines |-> <<Heading(<<"Product", "types">>),
                 Fence("GraphQL"),
                 Text(<<"type", "ProductInterface", "{", "sku", ":", "String", "}">>),
                 Fence(""),
                 Blank,
                 Fence(""),
                 Text(<<"{", "items", ":", "[", "]", "}">>),
                 Fence("")>>]

ContentStep ==
    [ok |-> TRUE, title |-> <<"Checkout step">>, description |-> "place an order",
     keywords |-> <<"checkout">>,
     lines |-> <<Text(<<"Send", "the", "mutation">>),
                 Blank,
                 Fence("graphql"),
                 Text(<<"mutation", "placeOrder", "(", "$", "cartId", ":", "String", "!", ")",
                        "{", "order", "{", "number", "}", "}">>),
                 Fence(""),
                 Fence("json"),
                 Text(<<"{", "number", ":", "404", "}">>),
                 Fence("")>>]

ContentCart ==
    [ok |-> TRUE, title |-> <<"Cart">>, description |-> NULL,
     keywords |-> <<"cart", "checkout", "products", "types">>,
     lines |-> <<Heading(<<"Cart">>), Blank, Text(<<"cart", "queries">>)>>]

ContentBad ==
    [ok |-> FALSE, title |-> <<>>, description |-> NULL, keywords |-> <<>>,
     lines |-> <<>>]

Bodies == {"plain", "gql", "bad"}

Content(b) ==
    CASE b = "plain" -> ContentPlain
      [] b = "gql" -> ContentGql
      [] b = "types" -> ContentTypes
      [] b = "step" -> ContentStep
      [] b = "cart" -> ContentCart
      [] OTHER -> ContentBad

NoFile == [present |-> FALSE, mtime |-> 0, body |-> "plain"]
File(m, b) == [present |-> TRUE, mtime |-> m, body |-> b]

FileStates == {NoFile} \cup {File(m, b) : m \in 0..MaxMtime, b \in Bodies}

\* ------------------------------------------------------------------ parser
\* str.lower() on the strings of the model.
Lower(s) ==
    CASE s = "GraphQL" -> "graphql"
      [] s = "GRAPHQL" -> "graphql"
      [] s = "JSON" -> "json"
      [] s = "Reference" -> "reference"
      [] s = "Products Query" -> "products query"
      [] s = "Checkout step" -> "checkout step"
      [] s = "Product" -> "product"
      [] s = "ProductInterface" -> "productinterface"
      [] s = "Overview" -> "overview"
      [] s = "Example" -> "example"
      [] s = "Send" -> "send"
      [] s = "String" -> "string"
      [] s = "placeOrder" -> "placeorder"
      [] s = "cartId" -> "cartid"
      [] OTHER -> s

\* a digest that does not depend on its input
Sha256OfNothing(s) == <<"sha256", <<>>>>

\* hashlib.sha256(rel_path.encode('utf-8')).hexdigest()
Sha256(s) == <<"sha256", s>>

\* datetime.fromtimestamp(t, tz=utc): whole microseconds, round-half-even
FromTimestamp(t) ==
    LET q == t \div TicksPerMicro
        r == t % TicksPerMicro
    IN  IF 2 * r < TicksPerMicro THEN q
        ELSE IF 2 * r > TicksPerMicro THEN q + 1
        ELSE IF q % 2 = 0 THEN q ELSE q + 1

\* datetime.isoformat()
IsoFormat(dt) == <<"iso", dt>>

\* json.dumps / json.loads
JsonDumps(v) == [json |-> v]
JsonLoads(j) == j.json

\* file_path.relative_to(self.docs_root)
AbsPath(rel) == <<DocsRoot>> \o rel
RelativeTo(abs) == Tail(abs)

\* a rule that takes the subcategory from every path below the root
SubcategoryFromTwoParts(file_path) ==
    LET parts == RelativeTo(file_path)
    IN  IF Len(parts) = 1 THEN <<"root", NULL>>
        ELSE <<parts[1], IF Len(parts) >= 2 THEN parts[2] ELSE NULL>>

extract_category_from_path(file_path) ==
    LET parts == RelativeTo(file_path)
    IN  IF Len(parts) = 1 THEN <<"root", NULL>>
        ELSE <<parts[1], IF Len(parts) > 2 THEN parts[2] ELSE NULL>>

\* Segments of the model that contain "reference" once lower-cased.
ReferenceSegments == {"reference", "reference.md", "api-reference"}

\* a classification that looks for reference in the path as it is written
ContentTypeCaseSensitive(category, rel_path) ==
    IF category = "schema" THEN "schema"
    ELSE IF category = "tutorials" THEN "tutorial"
    ELSE IF category \in {"develop", "usage"} THEN "guide"
    ELSE IF \E i \in 1..Len(rel_path) : rel_path[i] \in ReferenceSegments
         THEN "reference"
    ELSE "guide"

determine_content_type(category, rel_path) ==
    IF category = "schema" THEN "schema"
    ELSE IF category = "tutorials" THEN "tutorial"
    ELSE IF category \in {"develop", "usage"} THEN "guide"
    ELSE IF \E i \in 1..Len(rel_path) : Lower(rel_path[i]) \in ReferenceSegments
         THEN "reference"
    ELSE "guide"

\* the three backticks that open and close a fenced block
FenceMark == "[fence]"

\* line.strip(), as tokens (the fence marker is part of a fence line)
Stripped(line) ==
    CASE line.k = "fence" -> <<FenceMark>> \o SelectSeq(line.t, LAMBDA x : x # "")
      [] line.k = "head" -> <<"#">> \o line.t
      [] OTHER -> line.t

extract_first_header(lines) ==
    LET hs == {i \in 1..Len(lines) : lines[i].k = "head"}
    IN  IF hs = {} THEN <<>>
        ELSE LET i == CHOOSE j \in hs : \A h \in hs : j <= h IN lines[i].t

extract_headers(lines) ==
    LET IsHeader(l) == l.k = "head" /\ l.t # <<>>
    IN  [i \in 1..Len(SelectSeq(lines, IsHeader)) |-> SelectSeq(lines, IsHeader)[i].t]

RECURSIVE StripFenced(_, _)
\* the first re.sub of clean_content: every text from a fence marker to the
\* next one is dropped; a marker with no later marker stays
StripFenced(lines, inside) ==
    IF lines = <<>> THEN <<>>
    ELSE IF Head(lines).k = "fence"
              /\ (inside \/ \E i \in 2..Len(lines) : lines[i].k = "fence")
         THEN StripFenced(Tail(lines), ~inside)
    ELSE IF inside THEN StripFenced(Tail(lines), inside)
    ELSE <<Head(lines)>> \o StripFenced(Tail(lines), inside)

clean_content(lines) ==
    LET kept == StripFenced(lines, FALSE)
    IN  Flatten([i \in 1..Len(kept) |-> Stripped(kept[i])])

build_searchable_text(title, description, lines, keywords, headers) ==
    title
    \o (IF description = NULL THEN <<>> ELSE <<description>>)
    \o keywords
    \o Flatten(headers)
    \o clean_content(lines)

\* ---------------------------------------------------- parser: code blocks
NoContext == <<>>

RECURSIVE ContextScan(_, _, _, _)
\* the loop of extract_context: i runs from start_idx down to lo + 1 (0-based)
ContextScan(lines, i, lo, acc) ==
    IF i <= lo THEN acc
    ELSE LET line == lines[i + 1]
         IN  IF line.k \notin {"blank", "head"}
             THEN ContextScan(lines, i - 1, lo, <<Stripped(line)>> \o acc)
             ELSE IF acc # <<>> THEN acc
             ELSE ContextScan(lines, i - 1, lo, acc)

extract_context(lines, start_idx) ==
    IF start_idx < 0 THEN NoContext
    ELSE LET lo == IF start_idx - 5 > -1 THEN start_idx - 5 ELSE -1
             context_lines == ContextScan(lines, start_idx, lo, <<>>)
         IN  IF context_lines # <<>> THEN <<Flatten(context_lines)>> ELSE NoContext

\* the index (0-based) at which the inner while loop of extract_code_blocks stops
BlockEnd(lines, from) ==
    LET stops == {j \in from..Len(lines) :
                     j = Len(lines) \/ lines[j + 1].k = "fence"}
    IN  CHOOSE j \in stops : \A x \in stops : j <= x

\* the text after the fence marker as it stands
FenceLanguageRaw(line) == line.t[1]

FenceLanguage(line) ==
    LET language == Lower(line.t[1])
    IN  IF language = "" THEN "text" ELSE language

RECURSIVE ScanCodeBlocks(_, _, _)
\* the outer while loop of extract_code_blocks, from index i (0-based)
ScanCodeBlocks(lines, i, doc_id) ==
    IF i >= Len(lines) THEN <<>>
    ELSE IF lines[i + 1].k = "fence"
    THEN LET start_line == i + 2
             stop == BlockEnd(lines, i + 1)
             block == [document_id |-> doc_id,
                       language |-> FenceLanguage(lines[i + 1]),
                       code |-> SubSeq(lines, i + 2, stop),
                       context |-> extract_context(lines, start_line - 2),
                       line_number |-> start_line]
         IN  <<block>> \o ScanCodeBlocks(lines, stop + 1, doc_id)
    ELSE ScanCodeBlocks(lines, i + 1, doc_id)

extract_code_blocks(lines, doc_id) == ScanCodeBlocks(lines, 0, doc_id)

\* ------------------------------------------------ parser: GraphQL elements
Punctuation == {"{", "}", "(", ")", "[", "]", ":", "$", "#", "!", ",", "=", "-",
                FenceMark}

\* a token made of word characters
IsWord(tok) == tok \notin Punctuation

\* word tokens of the model that start with a digit
DigitLed == {"2fa", "404"}

\* a token the pattern [a-z_]\w* (case-insensitive) matches whole
IsIdentifier(tok) == IsWord(tok) /\ tok \notin DigitLed

\* word tokens of the model that end with a keyword without being it
KeywordSuffixed == {<<"subquery", "query">>, <<"content_type", "type">>,
                    <<"submutation", "mutation">>}

EndsWith(tok, kw) == tok = kw \/ <<tok, kw>> \in KeywordSuffixed

\* the tokens of a code body (its lines joined with newlines)
CodeTokens(code) == Flatten([i \in 1..Len(code) |-> Stripped(code[i])])

\* re.search(kw\s+(\w+), code): <<>> when there is no match, else <<group(1)>>
SearchDeclaration(toks, kw) ==
    LET hits == {i \in 1..(Len(toks) - 1) : EndsWith(toks[i], kw) /\ IsWord(toks[i + 1])}
    IN  IF hits = {} THEN <<>>
        ELSE LET i == CHOOSE j \in hits : \A h \in hits : j <= h IN <<toks[i + 1]>>

\* list(set(xs)) without the slice
Uncapped(S, n) == S

RECURSIVE CapSet(_, _)
\* list(set(xs))[:n]: a set; which n elements survive is up to the set's order
CapSet(S, n) ==
    IF Cardinality(S) <= n THEN S
    ELSE CapSet(S \ {CHOOSE x \in S : TRUE}, n)

extract_fields(code) ==
    LET toks == CodeTokens(code)
        fields == {toks[i] : i \in {j \in 1..(Len(toks) - 1) :
                      IsIdentifier(toks[j]) /\ toks[j + 1] \in {"(", ":", "{"}}}
    IN  CapSet(fields, MAX_FIELDS_PER_ELEMENT)

extract_parameters(code) ==
    LET toks == CodeTokens(code)
    IN  {toks[i + 1] : i \in {j \in 1..(Len(toks) - 2) :
            toks[j] = "$" /\ IsWord(toks[j + 1]) /\ toks[j + 2] = ":"}}

GraphQLElement(doc_id, kind, name, fields, parameters) ==
    [document_id |-> doc_id, element_type |-> kind, name |-> name,
     fields |-> fields, parameters |-> parameters,
     return_type |-> NULL, description |-> NULL,
     searchable_text |-> <<kind, name, fields, parameters>>]

ElementOfKind(code, doc_id, kind) ==
    LET m == SearchDeclaration(CodeTokens(code), kind)
    IN  IF m = <<>> THEN <<>>
        ELSE <<GraphQLElement(doc_id, kind, m[1], extract_fields(code),
                              IF kind \in {"query", "mutation"}
                              THEN extract_parameters(code) ELSE {})>>

\* an extraction that yields an element for every declaration of a query
ExtractEveryQuery(code, doc_id) ==
    LET toks == CodeTokens(code)
        hits == SelectSeqBy([i \in 1..Len(toks) |-> i],
                    {i \in 1..(Len(toks) - 1) : EndsWith(toks[i], "query") /\ IsWord(toks[i + 1])})
    IN  [k \in 1..Len(hits) |->
            GraphQLElement(doc_id, "query", toks[hits[k] + 1], extract_fields(code),
                           extract_parameters(code))]
        \o ElementOfKind(code, doc_id, "mutation")
        \o ElementOfKind(code, doc_id, "type")
        \o ElementOfKind(code, doc_id, "interface")

extract_graphql_elements(code, doc_id) ==
    ElementOfKind(code, doc_id, "query")
    \o ElementOfKind(code, doc_id, "mutation")
    \o ElementOfKind(code, doc_id, "type")
    \o ElementOfKind(code, doc_id, "interface")

\* -------------------------------------------------------- parser: documents
\* The files rglob finds: none when the root directory does not exist.
walk_directory(root, fs) ==
    IF ~root THEN <<>>
    ELSE LET found == SelectSeqBy(WalkOrder, {p \in DOMAIN fs : fs[p].present})
         IN  [i \in 1..Len(found) |-> AbsPath(found[i])]

\* parse_file: raised when the file cannot be read or its front matter parsed
parse_file(file_path, f) ==
    LET c == Content(f.body)
        rel_path == RelativeTo(file_path)
        cat == extract_category_from_path(file_path)
        first == extract_first_header(c.lines)
        title == IF c.title # <<>> THEN c.title
                 ELSE IF first # <<>> THEN first ELSE rel_path
        headers == extract_headers(c.lines)
    IN  [raised |-> ~c.ok,
         doc |-> [id |-> Sha256(rel_path),
                  file_path |-> rel_path,
                  title |-> title,
                  description |-> c.description,
                  keywords |-> c.keywords,
                  category |-> cat[1],
                  subcategory |-> cat[2],
                  content_type |-> determine_content_type(cat[1], rel_path),
                  searchable_text |-> build_searchable_text(
                      title, c.description, c.lines, c.keywords, headers),
                  headers |-> headers,
                  last_modified |-> FromTimestamp(f.mtime),
                  content_md |-> c.lines]]

NoneParsed == [raised |-> FALSE, documents |-> <<>>, code_blocks |-> <<>>,
               graphql_elements |-> <<>>]

\* an except branch that gives up on the batch
OnFileErrorAbort(acc) == [acc EXCEPT !.raised = TRUE]

\* the except branch of parse_all's loop: log and continue with the next file
OnFileError(acc) == acc

\* the try body of parse_all's loop for one file
ParseInto(acc, file_path, f) ==
    LET r == parse_file(file_path, f)
        blocks == extract_code_blocks(r.doc.content_md, r.doc.id)
        elements == Flatten([i \in 1..Len(blocks) |->
                        IF blocks[i].language = "graphql"
                        THEN extract_graphql_elements(blocks[i].code, r.doc.id)
                        ELSE <<>>])
    IN  IF acc.raised THEN acc
        ELSE IF r.raised THEN OnFileError(acc)
        ELSE [raised |-> FALSE,
              documents |-> Append(acc.documents, r.doc),
              code_blocks |-> acc.code_blocks \o blocks,
              graphql_elements |-> acc.graphql_elements \o elements]

RECURSIVE ParseFiles(_, _, _)
ParseFiles(acc, found, fs) ==
    IF found = <<>> THEN acc
    ELSE ParseFiles(ParseInto(acc, Head(found), fs[RelativeTo(Head(found))]),
                    Tail(found), fs)

parse_all(root, fs) == ParseFiles(NoneParsed, walk_directory(root, fs), fs)

\* ------------------------------------------------------------------ state
VARIABLES
    rootExists,        \* the documentation root directory exists
    files,             \* the .md files under it: relative path -> file
    edits,             \* changes made to the tree so far
    tables,            \* names of the tables of the database
    metadata,          \* rows of table metadata
    documents,         \* rows of table documents, in rowid order
    code_blocks,       \* rows of table code_blocks, in rowid order
    graphql_elements,  \* rows of table graphql_elements, in rowid order
    pc,                \* where ingest_graphql_docs stands
    total_files,       \* its local total_files
    parsed,            \* the result of parser.parse_all() inside ingest_data
    outcome,           \* how the last invocation ended
    trace,             \* history: the steps the current invocation has taken
    before,            \* history: the database when the invocation started
    metaWrites,        \* history: metadata upserts of the current invocation
    clean,             \* history: a pass completed and the tree is unchanged since
    settled,           \* history: the row counts when that pass completed
    reply              \* what the last call of a query tool returned or raised

vars == <<rootExists, files, edits, tables, metadata, documents, code_blocks,
          graphql_elements, pc, total_files, parsed, outcome, trace,
          before, metaWrites, clean, settled, reply>>

treeVars == <<rootExists, files, edits>>
dbVars == <<tables, metadata, documents, code_blocks, graphql_elements>>
passVars == <<pc, total_files, parsed, outcome, trace, before, metaWrites>>

Database == [tables |-> tables, metadata |-> metadata, documents |-> documents,
             code_blocks |-> code_blocks, graphql_elements |-> graphql_elements]

NoDatabase == [tables |-> {}, metadata |-> {}, documents |-> <<>>,
               code_blocks |-> <<>>, graphql_elements |-> <<>>]

Counts == <<Len(documents), Len(code_blocks), Len(graphql_elements)>>

AllTables == {"metadata", "documents", "code_blocks", "graphql_elements",
              "documents_fts", "graphql_elements_fts"}

PassSteps == {"create_tables", "new_parser", "walk_directory", "parse_all",
              "delete_code_blocks", "delete_graphql_elements", "delete_documents",
              "insert_documents", "insert_code_blocks", "insert_graphql_elements",
              "update_metadata"}

\* no query tool has been called
NoReply == [op |-> "none", args |-> <<>>, status |-> "none", text |-> "", rows |-> <<>>,
            ranked |-> <<>>]

InitialFiles == [p \in Paths |-> IF p = IndexMd THEN File(1, "plain") ELSE File(1, "gql")]

Init ==
    /\ rootExists = TRUE
    /\ files = InitialFiles
    /\ edits = 0
    /\ tables = {}
    /\ metadata = {}
    /\ documents = <<>>
    /\ code_blocks = <<>>
    /\ graphql_elements = <<>>
    /\ pc = "idle"
    /\ total_files = 0
    /\ parsed = NoneParsed
    /\ outcome = "none"
    /\ trace = <<>>
    /\ before = NoDatabase
    /\ metaWrites = 0
    /\ clean = FALSE
    /\ settled = <<0, 0, 0>>
    /\ reply = NoReply

\* ------------------------------------------------- the documentation tree
\* max(f.stat().st_mtime for f in docs_dir.rglob("*.md"), default=0)
LatestMtime(root, fs) ==
    LET present == {p \in DOMAIN fs : fs[p].present}
    IN  IF ~root \/ present = {} THEN 0
        ELSE SetMax({fs[p].mtime : p \in present})

Edited == /\ edits < MaxEdits
          /\ edits' = edits + 1
          /\ clean' = FALSE

\* a file is created or rewritten (any content, any modification time)
WriteFile(p, m, b) ==
    /\ rootExists
    /\ files[p] # File(m, b)
    /\ files' = [files EXCEPT ![p] = File(m, b)]
    /\ Edited
    /\ UNCHANGED <<rootExists, dbVars, passVars, settled, reply>>

RemoveFile(p) ==
    /\ files[p].present
    /\ files' = [files EXCEPT ![p] = NoFile]
    /\ Edited
    /\ UNCHANGED <<rootExists, dbVars, passVars, settled, reply>>

\* the root directory is removed with everything under it
RemoveRoot ==
    /\ rootExists
    /\ rootExists' = FALSE
    /\ files' = [p \in Paths |-> NoFile]
    /\ Edited
    /\ UNCHANGED <<dbVars, passVars, settled, reply>>

CreateRoot ==
    /\ ~rootExists
    /\ rootExists' = TRUE
    /\ Edited
    /\ UNCHANGED <<files, dbVars, passVars, settled, reply>>

\* ------------------------------------------------- ingestion coordinator
MetadataRow(meta, key) == {r \in meta : r.key = key}

\* should_reingest without the comparison: it re-ingests whenever the root exists
should_reingest_always(root, fs, tbls, meta) == root

\* should_reingest comparing with < : it re-ingests only when the tree is newer
should_reingest_if_newer(root, fs, tbls, meta) ==
    IF ~root THEN FALSE
    ELSE IF "metadata" \notin tbls THEN TRUE
    ELSE IF MetadataRow(meta, "last_ingestion") = {} THEN TRUE
    ELSE LET row == CHOOSE r \in MetadataRow(meta, "last_ingestion") : TRUE
         IN  row.docs_directory_mtime[2] < FromTimestamp(LatestMtime(root, fs))

should_reingest(root, fs, tbls, meta) ==
    IF ~root THEN FALSE
    ELSE IF "metadata" \notin tbls THEN TRUE
    ELSE IF MetadataRow(meta, "last_ingestion") = {} THEN TRUE
    ELSE LET row == CHOOSE r \in MetadataRow(meta, "last_ingestion") : TRUE
             latest_mtime_iso == IsoFormat(FromTimestamp(LatestMtime(root, fs)))
         IN  row.docs_directory_mtime # latest_mtime_iso

\* an insert that does not replace the row of the same key
UpsertKeepingOld(rows, record) == rows \cup {record}

\* db[table].upsert(record, pk="key")
Upsert(rows, record) == {r \in rows : r.key # record.key} \cup {record}

\* the next value of an integer primary key
NextRowid(rows) ==
    IF rows = <<>> THEN 1 ELSE SetMax({rows[i].id : i \in 1..Len(rows)}) + 1

\* db[table].insert_all(records) into a table with an integer primary key
InsertAllRowid(rows, records) ==
    rows \o [i \in 1..Len(records) |->
                [id |-> NextRowid(rows) + i - 1] @@ records[i]]

\* a document record that keeps the file name in place of the relative path
DocumentRecordFileName(doc) ==
    [id |-> doc.id,
     file_path |-> <<doc.file_path[Len(doc.file_path)]>>,
     title |-> doc.title,
     description |-> doc.description,
     keywords_json |-> JsonDumps(doc.keywords),
     category |-> doc.category,
     subcategory |-> doc.subcategory,
     content_type |-> doc.content_type,
     searchable_text |-> doc.searchable_text,
     headers_json |-> JsonDumps(doc.headers),
     last_modified |-> IsoFormat(doc.last_modified),
     content_md |-> doc.content_md]

\* the record ingest_data builds for a document
DocumentRecord(doc) ==
    [id |-> doc.id,
     file_path |-> doc.file_path,
     title |-> doc.title,
     description |-> doc.description,
     keywords_json |-> JsonDumps(doc.keywords),
     category |-> doc.category,
     subcategory |-> doc.subcategory,
     content_type |-> doc.content_type,
     searchable_text |-> doc.searchable_text,
     headers_json |-> JsonDumps(doc.headers),
     last_modified |-> IsoFormat(doc.last_modified),
     content_md |-> doc.content_md]

CodeBlockRecord(block) ==
    [document_id |-> block.document_id,
     language |-> block.language,
     code |-> block.code,
     context |-> block.context,
     line_number |-> block.line_number]

ElementRecord(element) ==
    [document_id |-> element.document_id,
     element_type |-> element.element_type,
     name |-> element.name,
     fields_json |-> JsonDumps(element.fields),
     parameters_json |-> JsonDumps(element.parameters),
     return_type |-> element.return_type,
     description |-> element.description,
     searchable_text |-> element.searchable_text]

Records(xs, Rec(_)) == [i \in 1..Len(xs) |-> Rec(xs[i])]

\* the record update_metadata upserts
\* datetime.now(timezone.utc).isoformat(): a wall-clock reading nothing reads back
WallClock == "<now>"

MetadataRecord(root, fs, n) ==
    [key |-> "last_ingestion",
     docs_directory_mtime |-> IsoFormat(FromTimestamp(LatestMtime(root, fs))),
     total_files |-> n,
     ingestion_time |-> WallClock]

\* the order in which a pass would delete before it parses
NextStepDeleteFirst(step) ==
    CASE step = "create_tables" -> "new_parser"
      [] step = "new_parser" -> "walk_directory"
      [] step = "walk_directory" -> "delete_code_blocks"
      [] step = "delete_code_blocks" -> "delete_graphql_elements"
      [] step = "delete_graphql_elements" -> "delete_documents"
      [] step = "delete_documents" -> "parse_all"
      [] step = "parse_all" -> "insert_documents"
      [] step = "insert_documents" -> "insert_code_blocks"
      [] step = "insert_code_blocks" -> "insert_graphql_elements"
      [] step = "insert_graphql_elements" -> "update_metadata"
      [] OTHER -> "idle"

\* the order in which a pass would delete the documents before their
\* code blocks and elements
NextStepDocumentsFirst(step) ==
    CASE step = "create_tables" -> "new_parser"
      [] step = "new_parser" -> "walk_directory"
      [] step = "walk_directory" -> "parse_all"
      [] step = "parse_all" -> "delete_documents"
      [] step = "delete_documents" -> "delete_code_blocks"
      [] step = "delete_code_blocks" -> "delete_graphql_elements"
      [] step = "delete_graphql_elements" -> "insert_documents"
      [] step = "insert_documents" -> "insert_code_blocks"
      [] step = "insert_code_blocks" -> "insert_graphql_elements"
      [] step = "insert_graphql_elements" -> "update_metadata"
      [] OTHER -> "idle"

\* the statement after each statement of a pass, in program order
NextStep(step) ==
    CASE step = "create_tables" -> "new_parser"
      [] step = "new_parser" -> "walk_directory"
      [] step = "walk_directory" -> "parse_all"
      [] step = "parse_all" -> "delete_code_blocks"
      [] step = "delete_code_blocks" -> "delete_graphql_elements"
      [] step = "delete_graphql_elements" -> "delete_documents"
      [] step = "delete_documents" -> "insert_documents"
      [] step = "insert_documents" -> "insert_code_blocks"
      [] step = "insert_code_blocks" -> "insert_graphql_elements"
      [] step = "insert_graphql_elements" -> "update_metadata"
      [] OTHER -> "idle"

\* the statement at pc is done: on to the next one
Continue == /\ pc' = NextStep(pc)
            /\ trace' = Append(trace, pc)
            /\ UNCHANGED <<outcome, before>>

\* ingest_graphql_docs returns or raises: its locals are gone
Return(how) == /\ pc' = "idle"
               /\ outcome' = how
               /\ trace' = <<>>
               /\ before' = NoDatabase
               /\ total_files' = 0
               /\ parsed' = NoneParsed

\* ingest_graphql_docs is called: the skip check
Start ==
    /\ pc = "idle"
    /\ before' = Database
    /\ metaWrites' = 0
    /\ trace' = <<>>
    /\ IF should_reingest(rootExists, files, tables, metadata)
       THEN pc' = "create_tables" /\ outcome' = "running"
       ELSE pc' = "idle" /\ outcome' = "skipped"
    /\ UNCHANGED <<treeVars, dbVars, total_files, parsed, clean, settled, reply>>

CreateTables ==
    /\ pc = "create_tables"
    /\ tables' = tables \cup AllTables
    /\ Continue
    /\ UNCHANGED <<treeVars, metadata, documents, code_blocks, graphql_elements,
                   total_files, parsed, metaWrites, clean, settled, reply>>

\* MarkdownDocParser(DOCS_PATH), outside the try block
NewParser ==
    /\ pc = "new_parser"
    /\ IF rootExists
       THEN Continue /\ UNCHANGED <<total_files, parsed>>
       ELSE Return("raised FileNotFoundError")
    /\ UNCHANGED <<treeVars, dbVars, metaWrites, clean, settled, reply>>

WalkDirectory ==
    /\ pc = "walk_directory"
    /\ total_files' = Len(walk_directory(rootExists, files))
    /\ Continue
    /\ UNCHANGED <<treeVars, dbVars, parsed, metaWrites, clean, settled, reply>>

\* ingest_data: parser.parse_all()
ParseAll ==
    /\ pc = "parse_all"
    /\ LET result == parse_all(rootExists, files)
       IN  IF result.raised
           THEN Return("raised Exception")
           ELSE parsed' = result /\ Continue /\ UNCHANGED total_files
    /\ UNCHANGED <<treeVars, dbVars, metaWrites, clean, settled, reply>>

DeleteCodeBlocks ==
    /\ pc = "delete_code_blocks"
    /\ code_blocks' = <<>>
    /\ Continue
    /\ UNCHANGED <<treeVars, tables, metadata, documents, graphql_elements,
                   total_files, parsed, metaWrites, clean, settled, reply>>

DeleteGraphqlElements ==
    /\ pc = "delete_graphql_elements"
    /\ graphql_elements' = <<>>
    /\ Continue
    /\ UNCHANGED <<treeVars, tables, metadata, documents, code_blocks,
                   total_files, parsed, metaWrites, clean, settled, reply>>

DeleteDocuments ==
    /\ pc = "delete_documents"
    /\ documents' = <<>>
    /\ Continue
    /\ UNCHANGED <<treeVars, tables, metadata, code_blocks, graphql_elements,
                   total_files, parsed, metaWrites, clean, settled, reply>>

InsertDocuments ==
    /\ pc = "insert_documents"
    /\ documents' = documents \o Records(parsed.documents, DocumentRecord)
    /\ Continue
    /\ UNCHANGED <<treeVars, tables, metadata, code_blocks, graphql_elements,
                   total_files, parsed, metaWrites, clean, settled, reply>>

InsertCodeBlocks ==
    /\ pc = "insert_code_blocks"
    /\ code_blocks' = InsertAllRowid(code_blocks,
                                     Records(parsed.code_blocks, CodeBlockRecord))
    /\ Continue
    /\ UNCHANGED <<treeVars, tables, metadata, documents, graphql_elements,
                   total_files, parsed, metaWrites, clean, settled, reply>>

InsertGraphqlElements ==
    /\ pc = "insert_graphql_elements"
    /\ graphql_elements' = InsertAllRowid(graphql_elements,
                                Records(parsed.graphql_elements, ElementRecord))
    /\ Continue
    /\ UNCHANGED <<treeVars, tables, metadata, documents, code_blocks,
                   total_files, parsed, metaWrites, clean, settled, reply>>

\* update_metadata, then "ingestion complete"
UpdateMetadata ==
    /\ pc = "update_metadata"
    /\ metadata' = Upsert(metadata,
                          MetadataRecord(rootExists, files, total_files))
    /\ metaWrites' = metaWrites + 1
    /\ Return("complete")
    /\ clean' = TRUE
    /\ settled' = Counts
    /\ UNCHANGED <<treeVars, tables, documents, code_blocks, graphql_elements, reply>>

\* a statement of the pass raises (the database is locked, the disk is full,
\* the tree cannot be listed): logged and re-raised to the caller
Fail ==
    /\ pc \in PassSteps \ {"new_parser", "parse_all"}
    /\ Return("raised Exception")
    /\ UNCHANGED <<treeVars, dbVars, metaWrites, clean, settled, reply>>

\* update_metadata: a file listed by rglob is removed before its stat();
\* FileNotFoundError is caught by ingest_graphql_docs, which returns
UpdateMetadataFileVanished(p) ==
    /\ pc = "update_metadata"
    /\ files[p].present
    /\ files' = [files EXCEPT ![p] = NoFile]
    /\ Edited
    /\ Return("returned on FileNotFoundError")
    /\ UNCHANGED <<rootExists, dbVars, metaWrites, settled, reply>>

Next ==
    \/ \E p \in Paths, m \in 0..MaxMtime, b \in Bodies : WriteFile(p, m, b)
    \/ \E p \in Paths : RemoveFile(p)
    \/ RemoveRoot
    \/ CreateRoot
    \/ Start
    \/ CreateTables
    \/ NewParser
    \/ WalkDirectory
    \/ ParseAll
    \/ DeleteCodeBlocks
    \/ DeleteGraphqlElements
    \/ DeleteDocuments
    \/ InsertDocuments
    \/ InsertCodeBlocks
    \/ InsertGraphqlElements
    \/ UpdateMetadata
    \/ Fail
    \/ \E p \in Paths : UpdateMetadataFileVanished(p)

Spec == Init /\ [][Next]_vars

\* ------------------------------------------------------------ query tools
\* The tools are served once the lifespan's call of ingest_graphql_docs has
\* returned; a call that raised keeps the server from starting.
Serving == pc = "idle" /\ outcome \in {"skipped", "complete", "returned on FileNotFoundError"}

\* A reply: the tool and its arguments, how the call ended and what it
\* rendered; ranked is history, the file paths of the rows the full-text
\* engine matched, in the order in which it ranked them.
Found(op, args, rows) ==
    [op |-> op, args |-> args, status |-> "found", text |-> "", rows |-> rows,
     ranked |-> <<>>]
NotFound(op, args, text) ==
    [op |-> op, args |-> args, status |-> "not_found", text |-> text, rows |-> <<>>,
     ranked |-> <<>>]
Raise(op, args, error) ==
    [op |-> op, args |-> args, status |-> "raised", text |-> error, rows |-> <<>>,
     ranked |-> <<>>]

\* if x: of an optional string argument
Given(x) == x # NULL /\ x # ""

\* Pairs <<text, part>> of lower-cased strings of the model where part occurs
\* inside text without being it.
SubstringPairs ==
    {<<"products query", "products">>, <<"products query", "product">>,
     <<"products query", "query">>, <<"products", "product">>,
     <<"productinterface", "product">>, <<"checkout step", "checkout">>,
     <<"checkout step", "check">>, <<"checkout", "check">>,
     <<"place an order", "order">>, <<"placeorder", "order">>}

\* Pairs <<text, part>> of SubstringPairs where text starts with part.
PrefixPairs ==
    {<<"products query", "products">>, <<"products query", "product">>,
     <<"products", "product">>, <<"productinterface", "product">>,
     <<"checkout step", "checkout">>, <<"checkout step", "check">>,
     <<"checkout", "check">>}

\* text LIKE '%part%', and a trigram match of one term: case-insensitive
Contains(text, part) ==
    \/ part = ""
    \/ Lower(text) = Lower(part)
    \/ <<Lower(text), Lower(part)>> \in SubstringPairs

\* text LIKE 'part%'
StartsWith(text, part) ==
    \/ part = ""
    \/ Lower(text) = Lower(part)
    \/ <<Lower(text), Lower(part)>> \in PrefixPairs

\* all sequences that list the elements of S once each
Orderings(S) ==
    {s \in [1..Cardinality(S) -> S] :
        \A i, j \in 1..Cardinality(S) : s[i] = s[j] => i = j}

\* ORDER BY rank: the order of the hits is the engine's. Up to MaxPermuted hits
\* come in any order; more hits come in the order of their rows.
RankOrders(hits) ==
    IF Cardinality(hits) <= MaxPermuted THEN Orderings(hits)
    ELSE {SelectSeqBy([i \in 1..SetMax(hits) |-> i], hits)}

\* the first row with the given id, as dict(db.query(...).__next__()) reads it:
\* <<>> when StopIteration is raised
DocumentById(id) == Take(SelectSeq(documents, LAMBDA d : d.id = id), 1)
DocumentByPath(file_path) ==
    Take(SelectSeq(documents, LAMBDA d : d.file_path = file_path), 1)

\* A query handed to MATCH is a sequence of tokens. The FTS5 grammar accepts
\* a parenthesised group only around at least one bareword; a token that is
\* not a bareword (the hyphen of add-to-cart) is a syntax error.
FtsWellFormed(q) == q # <<>> /\ \A i \in 1..Len(q) : IsWord(q[i])

\* " OR ".join(f"({q})" for q in queries), parsed by FTS5: an empty list
\* gives the empty string, which is a syntax error as well
FtsParses(queries) ==
    queries # <<>> /\ \A i \in 1..Len(queries) : FtsWellFormed(queries[i])

\* the words of a group are all required, the groups are alternatives
FtsMatch(tokens, queries) ==
    \E i \in 1..Len(queries) :
        \A j \in 1..Len(queries[i]) :
            \E k \in 1..Len(tokens) : Contains(tokens[k], queries[i][j])

\* the text the FTS index of graphql_elements holds for a row
ElementTokens(e) ==
    LET names == e.searchable_text[3] \cup e.searchable_text[4]
        order == CHOOSE s \in Orderings(names) : TRUE
    IN  <<e.searchable_text[1], e.searchable_text[2]>> \o order

\* positions of the rows of a table whose indexed text matches
DocumentHits(queries) ==
    {i \in 1..Len(documents) : FtsMatch(documents[i].searchable_text, queries)}
ElementHits(queries) ==
    {i \in 1..Len(graphql_elements) :
        FtsMatch(ElementTokens(graphql_elements[i]), queries)}

\* rows of code_blocks of one document with a language among langs, LIMIT n
CodeBlocksOf(document_id, langs, n) ==
    Take(SelectSeq(code_blocks,
                   LAMBDA b : b.document_id = document_id /\ b.language \in langs), n)

\* The rendering of one row by search_documentation.
DocumentSummary(doc) ==
    [title |-> doc.title, path |-> doc.file_path, category |-> doc.category,
     subcategory |-> doc.subcategory, type |-> doc.content_type,
     excerpt |-> IF Given(doc.description) THEN <<doc.description>>
                 ELSE doc.content_md]

\* search_documentation without its filters
SearchDocumentationRowsUnfiltered(ranked, category, subcategory, content_type) ==
    Take(Take(ranked, DB_TOP_K * SEARCH_RESULT_MULTIPLIER), DB_TOP_K)

\* search_documentation with the filters applied to all hits, before the limit
SearchDocumentationRowsFilterFirst(ranked, category, subcategory, content_type) ==
    Take(SelectSeq(ranked,
            LAMBDA r : /\ Given(category) => r.category = category
                       /\ Given(subcategory) => r.subcategory = subcategory
                       /\ Given(content_type) => r.content_type = content_type),
         DB_TOP_K)

\* search_documentation, given the rows MATCH found in rank order
SearchDocumentationRows(ranked, category, subcategory, content_type) ==
    LET results == Take(ranked, DB_TOP_K * SEARCH_RESULT_MULTIPLIER)
        by_category == IF Given(category)
                       THEN SelectSeq(results, LAMBDA r : r.category = category)
                       ELSE results
        by_subcategory == IF Given(subcategory)
                          THEN SelectSeq(by_category,
                                         LAMBDA r : r.subcategory = subcategory)
                          ELSE by_category
        by_type == IF Given(content_type)
                   THEN SelectSeq(by_subcategory,
                                  LAMBDA r : r.content_type = content_type)
                   ELSE by_subcategory
    IN  Take(by_type, DB_TOP_K)

search_documentation(queries, category, subcategory, content_type) ==
    LET args == <<queries, category, subcategory, content_type>>
    IN  /\ Serving
        /\ IF "documents_fts" \notin tables
           THEN reply' = Raise("search_documentation", args, "no such table")
           ELSE IF ~FtsParses(queries)
           THEN reply' = Raise("search_documentation", args, "OperationalError")
           ELSE \E order \in RankOrders(DocumentHits(queries)) :
                   LET ranked == [i \in 1..Len(order) |-> documents[order[i]]]
                       results == SearchDocumentationRows(
                                      ranked, category, subcategory, content_type)
                       answer ==
                         IF results = <<>>
                         THEN NotFound("search_documentation", args,
                                       "No matching documentation found.")
                         ELSE Found("search_documentation", args,
                                    Records(results, DocumentSummary))
                   IN  reply' = [answer EXCEPT !.ranked =
                                    [i \in 1..Len(ranked) |-> ranked[i].file_path]]
        /\ UNCHANGED <<treeVars, dbVars, passVars, clean, settled>>

\* The rendering of a row by get_document.
DocumentPage(doc) ==
    [title |-> doc.title, path |-> doc.file_path, category |-> doc.category,
     subcategory |-> doc.subcategory, type |-> doc.content_type,
     keywords |-> JsonLoads(doc.keywords_json),
     description |-> IF Given(doc.description) THEN <<doc.description>> ELSE <<>>,
     content |-> doc.content_md]

\* except StopIteration: return the message
OnStopIteration(op, args, text) == NotFound(op, args, text)

get_document(file_path) ==
    LET found == DocumentByPath(file_path)
    IN  /\ Serving
        /\ reply' =
             IF "documents" \notin tables
             THEN Raise("get_document", <<file_path>>, "no such table")
             ELSE IF found = <<>>
             THEN OnStopIteration("get_document", <<file_path>>, "Document not found")
             ELSE Found("get_document", <<file_path>>, <<DocumentPage(found[1])>>)
        /\ UNCHANGED <<treeVars, dbVars, passVars, clean, settled>>

\* The rendering of a row by search_graphql_elements.
ElementSummary(elem) ==
    LET doc == DocumentById(elem.document_id)
    IN  [element_type |-> elem.element_type, name |-> elem.name,
         source |-> IF doc = <<>> THEN <<>>
                    ELSE <<[title |-> doc[1].title, path |-> doc[1].file_path]>>,
         fields |-> CapSet(JsonLoads(elem.fields_json), 10),
         parameters |-> JsonLoads(elem.parameters_json)]

search_graphql_elements(query, element_type) ==
    LET args == <<query, element_type>>
    IN  /\ Serving
        /\ IF "graphql_elements_fts" \notin tables
           THEN reply' = Raise("search_graphql_elements", args, "no such table")
           ELSE IF ~FtsWellFormed(query)
           THEN reply' = Raise("search_graphql_elements", args, "OperationalError")
           ELSE \E order \in RankOrders(ElementHits(<<query>>)) :
                   LET ranked == [i \in 1..Len(order) |-> graphql_elements[order[i]]]
                       fetched == Take(ranked, 10)
                       results == IF Given(element_type)
                                  THEN SelectSeq(fetched,
                                           LAMBDA r : r.element_type = element_type)
                                  ELSE fetched
                   IN  reply' =
                         IF results = <<>>
                         THEN NotFound("search_graphql_elements", args,
                                       "No GraphQL elements found matching")
                         ELSE Found("search_graphql_elements", args,
                                    Records(results, ElementSummary))
        /\ UNCHANGED <<treeVars, dbVars, passVars, clean, settled>>

\* The rendering of a row by get_element_details.
ElementPage(elem) ==
    LET doc == DocumentById(elem.document_id)
    IN  [element_type |-> elem.element_type, name |-> elem.name,
         parameters |-> JsonLoads(elem.parameters_json),
         fields |-> JsonLoads(elem.fields_json),
         source |-> IF doc = <<>> THEN <<>>
                    ELSE <<[title |-> doc[1].title, path |-> doc[1].file_path]>>,
         examples |-> IF doc = <<>> THEN <<>>
                      ELSE Records(CodeBlocksOf(elem.document_id, {"graphql"}, 3),
                                   LAMBDA b : b.code)]

get_element_details(element_name, element_type) ==
    LET args == <<element_name, element_type>>
        elements == SelectSeq(graphql_elements,
                        LAMBDA e : /\ e.name = element_name
                                   /\ Given(element_type)
                                         => e.element_type = element_type)
    IN  /\ Serving
        /\ reply' =
             IF "graphql_elements" \notin tables
             THEN Raise("get_element_details", args, "no such table")
             ELSE IF elements = <<>>
             THEN NotFound("get_element_details", args, "GraphQL element not found")
             ELSE Found("get_element_details", args, Records(elements, ElementPage))
        /\ UNCHANGED <<treeVars, dbVars, passVars, clean, settled>>

\* str.title() of the tutorial name
Title(name) == <<"title", name>>

\* file_path LIKE 'tutorials/<name>%' for a name without a separator
PathLikeTutorial(file_path, tutorial_name) ==
    /\ Len(file_path) >= 2
    /\ Lower(file_path[1]) = "tutorials"
    /\ StartsWith(file_path[2], tutorial_name)

\* the rows of a set of positions of documents, in the order of the table
OrderByRowid(positions) ==
    LET kept == SelectSeqBy([i \in 1..Len(documents) |-> i], positions)
    IN  [k \in 1..Len(kept) |-> documents[kept[k]]]

\* the rows of a set of positions of documents, ORDER BY file_path
OrderByFilePath(positions) ==
    LET paths == {documents[i].file_path : i \in positions}
        sorted == SelectSeqBy(SortedPaths, paths)
    IN  Flatten([k \in 1..Len(sorted) |->
                    SelectSeq(documents, LAMBDA d : d.file_path = sorted[k])])

\* The rendering of step i by get_tutorial.
TutorialStep(i, doc) ==
    [step |-> i, title |-> doc.title, file |-> doc.file_path,
     description |-> IF Given(doc.description) THEN <<doc.description>> ELSE <<>>,
     examples |-> Records(CodeBlocksOf(doc.id, {"graphql", "json"}, 2),
                          LAMBDA b : [language |-> b.language, code |-> b.code])]

get_tutorial(tutorial_name) ==
    LET docs == OrderByFilePath(
                    {i \in 1..Len(documents) :
                        /\ documents[i].category = "tutorials"
                        /\ \/ documents[i].subcategory = tutorial_name
                           \/ PathLikeTutorial(documents[i].file_path, tutorial_name)})
    IN  /\ Serving
        /\ reply' =
             IF "documents" \notin tables
             THEN Raise("get_tutorial", <<tutorial_name>>, "no such table")
             ELSE IF docs = <<>>
             THEN NotFound("get_tutorial", <<tutorial_name>>, "Tutorial not found")
             ELSE [Found("get_tutorial", <<tutorial_name>>,
                         [i \in 1..Len(docs) |-> TutorialStep(i, docs[i])])
                      EXCEPT !.text = Title(tutorial_name)]
        /\ UNCHANGED <<treeVars, dbVars, passVars, clean, settled>>

\* The rendering of one joined row by search_examples.
ExampleSummary(block) ==
    LET doc == DocumentById(block.document_id)[1]
    IN  [title |-> doc.title, file |-> doc.file_path, language |-> block.language,
         context |-> block.context, code |-> block.code]

search_examples(query, language) ==
    LET args == <<query, language>>
        CodeLike(b) == \E i \in 1..Len(CodeTokens(b.code)) :
                           Contains(CodeTokens(b.code)[i], query)
        ContextLike(b) == /\ b.context # NoContext
                          /\ \E i \in 1..Len(b.context[1]) :
                                 Contains(b.context[1][i], query)
        results == Take(SelectSeq(code_blocks,
                            LAMBDA b : /\ DocumentById(b.document_id) # <<>>
                                       /\ CodeLike(b) \/ ContextLike(b)
                                       /\ Given(language) => b.language = language),
                        10)
    IN  /\ Serving
        /\ reply' =
             IF "code_blocks" \notin tables
             THEN Raise("search_examples", args, "no such table")
             ELSE IF results = <<>>
             THEN NotFound("search_examples", args, "No code examples found matching")
             ELSE Found("search_examples", args, Records(results, ExampleSummary))
        /\ UNCHANGED <<treeVars, dbVars, passVars, clean, settled>>

\* a loop that appends every row, seen or not
DeduplicateNone(docs, seen) == docs

RECURSIVE Deduplicate(_, _)
\* the loop over related_by_category + related_by_keywords with its seen set
Deduplicate(docs, seen) ==
    IF docs = <<>> THEN <<>>
    ELSE IF Head(docs).file_path \in seen THEN Deduplicate(Tail(docs), seen)
    ELSE <<Head(docs)>> \o Deduplicate(Tail(docs), seen \cup {Head(docs).file_path})

\* keywords_json LIKE '%keyword%'
KeywordsLike(doc, keyword) ==
    \E i \in 1..Len(JsonLoads(doc.keywords_json)) :
        Contains(JsonLoads(doc.keywords_json)[i], keyword)

\* the rows get_related_documents collects for a source row, given the order
\* in which list(source_keywords) lists the set
RelatedRows(source_doc, file_path, keyword_order) ==
    LET related_by_category ==
            Take(SelectSeq(documents,
                    LAMBDA d : /\ d.category = source_doc.category
                               /\ source_doc.subcategory # NULL
                               /\ d.subcategory = source_doc.subcategory
                               /\ d.file_path # file_path), 5)
        keywords == Take(keyword_order, 3)
        related_by_keywords ==
            Flatten([k \in 1..Len(keywords) |->
                Take(SelectSeq(documents,
                        LAMBDA d : /\ KeywordsLike(d, keywords[k])
                                   /\ d.file_path # file_path), 3)])
    IN  Take(Deduplicate(related_by_category \o related_by_keywords, {}), 5)

\* The rendering of one row by get_related_documents.
RelatedSummary(source_doc, doc) ==
    [title |-> doc.title, path |-> doc.file_path,
     relationship |-> IF doc.category = source_doc.category
                      THEN "Same category" ELSE "Similar content",
     category |-> doc.category, subcategory |-> doc.subcategory,
     description |-> IF Given(doc.description) THEN <<doc.description>> ELSE <<>>]

get_related_documents(file_path) ==
    LET found == DocumentByPath(file_path)
    IN  /\ Serving
        /\ IF "documents" \notin tables
           THEN reply' = Raise("get_related_documents", <<file_path>>, "no such table")
           ELSE IF found = <<>>
           THEN reply' = NotFound("get_related_documents", <<file_path>>,
                                  "Document not found")
           ELSE \E keyword_order \in
                       Orderings(Range(JsonLoads(found[1].keywords_json))) :
                   LET all_related == RelatedRows(found[1], file_path, keyword_order)
                   IN  reply' =
                         IF all_related = <<>>
                         THEN NotFound("get_related_documents", <<file_path>>,
                                       "No related documents found")
                         ELSE Found("get_related_documents", <<file_path>>,
                                    [i \in 1..Len(all_related) |->
                                        RelatedSummary(found[1], all_related[i])])
        /\ UNCHANGED <<treeVars, dbVars, passVars, clean, settled>>

\* ---------------------------------------------- the server and its tools
\* The body each file of a served tree has when it is there.
QueryBody(p) ==
    CASE p = IndexMd -> {"plain"}
      [] p = ProductsMd -> {"gql"}
      [] p = TypesMd -> {"types", "bad"}
      [] OTHER -> {"step"}

QueryCorpora ==
    {fs \in [QueryPaths -> FileStates \cup {File(1, "types"), File(1, "step")}] :
        /\ fs[IndexMd].present
        /\ \A p \in QueryPaths :
               fs[p].present => fs[p].mtime = 1 /\ fs[p].body \in QueryBody(p)}

\* the arguments the tools are called with
PathArguments == QueryPaths \cup {MissingMd}
QueriesArguments ==
    {<< <<"products">> >>, << <<"zzz">> >>, << <<"zzz">>, <<"checkout">> >>,
     << <<"add", "-", "to", "-", "cart">> >>, <<>>}
QueryArguments == {<<"products">>, <<"order">>, <<"zzz">>, <<"zzz", "-", "yyy">>}

\* the server starts on some tree with no database yet
InitQuery ==
    /\ rootExists \in BOOLEAN
    /\ files \in QueryCorpora \cup {[p \in QueryPaths |-> NoFile]}
    /\ rootExists = FALSE => files = [p \in QueryPaths |-> NoFile]
    /\ edits = 0
    /\ tables = {}
    /\ metadata = {}
    /\ documents = <<>>
    /\ code_blocks = <<>>
    /\ graphql_elements = <<>>
    /\ pc = "idle"
    /\ total_files = 0
    /\ parsed = NoneParsed
    /\ outcome = "none"
    /\ trace = <<>>
    /\ before = NoDatabase
    /\ metaWrites = 0
    /\ clean = FALSE
    /\ settled = <<0, 0, 0>>
    /\ reply = NoReply

\* server_lifespan runs ingest_graphql_docs to its end, then the tools are called
NextQuery ==
    \/ Start
    \/ CreateTables
    \/ NewParser
    \/ WalkDirectory
    \/ ParseAll
    \/ DeleteCodeBlocks
    \/ DeleteGraphqlElements
    \/ DeleteDocuments
    \/ InsertDocuments
    \/ InsertCodeBlocks
    \/ InsertGraphqlElements
    \/ UpdateMetadata
    \/ \E queries \in QueriesArguments, category \in {NULL, "schema"},
          subcategory \in {NULL, "products"}, content_type \in {NULL, "tutorial"} :
            search_documentation(queries, category, subcategory, content_type)
    \/ \E file_path \in PathArguments : get_document(file_path)
    \/ \E query \in QueryArguments, element_type \in {NULL, "query", "mutation"} :
            search_graphql_elements(query, element_type)
    \/ \E element_name \in {"products", "placeOrder", "zzz"},
          element_type \in {NULL, "query"} :
            get_element_details(element_name, element_type)
    \/ \E tutorial_name \in {"checkout", "check", "zzz"} : get_tutorial(tutorial_name)
    \/ \E query \in {"sku", "order", "zzz"}, language \in {NULL, "graphql", "json"} :
            search_examples(query, language)
    \/ \E file_path \in PathArguments : get_related_documents(file_path)

SpecQuery == InitQuery /\ [][NextQuery]_vars

\* ------------------------------------------- the server on a larger tree
\* Trees of MaxPages pages that all match the query "products".
RankCorpora ==
    {[p \in {PagePath(kinds[i], i) : i \in 1..MaxPages} |-> File(1, "gql")] :
        kinds \in [1..MaxPages -> {"schema", "tutorials"}]}

\* the filters search_documentation is called with on these trees:
\* category, subcategory, content_type
FilterArguments ==
    {<<NULL, NULL, NULL>>, <<"schema", NULL, NULL>>, <<NULL, "products", NULL>>,
     <<NULL, NULL, "tutorial">>, <<"schema", "products", "schema">>}

InitRank ==
    /\ rootExists = TRUE
    /\ files \in RankCorpora
    /\ edits = 0
    /\ tables = {}
    /\ metadata = {}
    /\ documents = <<>>
    /\ code_blocks = <<>>
    /\ graphql_elements = <<>>
    /\ pc = "idle"
    /\ total_files = 0
    /\ parsed = NoneParsed
    /\ outcome = "none"
    /\ trace = <<>>
    /\ before = NoDatabase
    /\ metaWrites = 0
    /\ clean = FALSE
    /\ settled = <<0, 0, 0>>
    /\ reply = NoReply

NextRank ==
    \/ Start
    \/ CreateTables
    \/ NewParser
    \/ WalkDirectory
    \/ ParseAll
    \/ DeleteCodeBlocks
    \/ DeleteGraphqlElements
    \/ DeleteDocuments
    \/ InsertDocuments
    \/ InsertCodeBlocks
    \/ InsertGraphqlElements
    \/ UpdateMetadata
    \/ \E filter \in FilterArguments :
            search_documentation(<< <<"products">> >>, filter[1], filter[2], filter[3])

SpecRank == InitRank /\ [][NextRank]_vars

\* ------------------------------------------- the extraction of elements
\* The tokens the code bodies are made of.
CodeAlphabet == {"mutation", "submutation", "createFoo", "x", "2fa", "("}

\* The tokens that follow a declaration, and the declarations.
FieldAlphabet == {"sku", "2fa", "$", ":", "{"}
Declarations == {<<"query", "q">>, <<"mutation", "m">>, <<"type", "T">>,
                 <<"interface", "I">>, <<>>}

\* Bodies that declare all four kinds, in the order of the code and against it,
\* a kind twice, and more fields than an element keeps.
ShapeBodies ==
    {<<Text(<<"query", "q", "{", "sku", "}">>),
       Text(<<"mutation", "m", "(", "$", "id", ":", "ID", ")", "{", "sku", "}">>),
       Text(<<"type", "T", "{", "sku", ":", "String", "}">>),
       Text(<<"interface", "I", "{", "name", ":", "String", "}">>)>>,
     <<Text(<<"interface", "I", "{", "name", ":", "String", "}">>),
       Text(<<"type", "T", "{", "sku", ":", "String", "}">>),
       Text(<<"mutation", "m", "(", "$", "id", ":", "ID", ")", "{", "sku", "}">>),
       Text(<<"query", "q", "{", "sku", "}">>)>>,
     <<Text(<<"query", "q", "{", "sku", "}">>), Text(<<"query", "r", "{", "name", "}">>)>>,
     <<Text(<<"type", "Wide", "{">>),
       Text(<<"f01", ":", "f02", ":", "f03", ":", "f04", ":", "f05", ":", "f06", ":",
              "f07", ":", "f08", ":", "f09", ":", "f10", ":", "f11", ":", "f12", ":",
              "f13", ":", "f14", ":", "f15", ":", "f16", ":", "f17", ":", "f18", ":",
              "f19", ":", "f20", ":", "f21", ":", "String">>),
       Text(<<"}">>)>>}

\* Code bodies: one line of up to MaxCodeLen tokens, a declaration followed by
\* up to MaxCodeLen tokens, and the bodies above.
CodeBodies ==
    UNION {{<<Text(toks)>> : toks \in [1..n -> CodeAlphabet]} : n \in 1..MaxCodeLen}
    \cup UNION {{<<Text(d \o toks)>> : toks \in [1..n -> FieldAlphabet], d \in Declarations} :
                   n \in 1..MaxCodeLen}
    \cup ShapeBodies

\* parse_all has parsed index.md and extracted one graphql block from it, and a
\* block of some language from a second file; the elements of the blocks are
\* not extracted yet
InitExtract ==
    /\ rootExists = TRUE
    /\ files = [p \in {IndexMd, TypesMd} |->
                    IF p = IndexMd THEN File(1, "plain") ELSE File(1, "types")]
    /\ edits = 0
    /\ tables = AllTables
    /\ metadata = {}
    /\ documents = <<>>
    /\ code_blocks = <<>>
    /\ graphql_elements = <<>>
    /\ pc = "parse_all"
    /\ total_files = 2
    /\ \E code \in CodeBodies, language \in {"graphql", "json"} :
          parsed = [raised |-> FALSE,
                    documents |-> <<parse_file(AbsPath(IndexMd), File(1, "plain")).doc,
                                    parse_file(AbsPath(TypesMd), File(1, "types")).doc>>,
                    code_blocks |-> <<[document_id |-> Sha256(IndexMd),
                                       language |-> "graphql", code |-> code,
                                       context |-> NoContext, line_number |-> 2],
                                      [document_id |-> Sha256(TypesMd),
                                       language |-> language,
                                       code |-> <<Text(<<"type", "Hidden", "{", "id",
                                                         ":", "ID", "}">>)>>,
                                       context |-> NoContext, line_number |-> 2]>>,
                    graphql_elements |-> <<>>]
    /\ outcome = "running"
    /\ trace = <<>>
    /\ before = NoDatabase
    /\ metaWrites = 0
    /\ clean = FALSE
    /\ settled = <<0, 0, 0>>
    /\ reply = NoReply

\* parse_all: the loop over the code blocks of the file
ExtractElements ==
    /\ pc = "parse_all"
    /\ trace = <<>>
    /\ parsed' = [parsed EXCEPT !.graphql_elements =
                    Flatten([i \in 1..Len(parsed.code_blocks) |->
                        IF parsed.code_blocks[i].language = "graphql"
                        THEN extract_graphql_elements(parsed.code_blocks[i].code,
                                                      parsed.code_blocks[i].document_id)
                        ELSE <<>>])]
    /\ trace' = <<"extract_graphql_elements">>
    /\ UNCHANGED <<treeVars, dbVars, pc, total_files, outcome, before, metaWrites,
                   clean, settled, reply>>

NextExtract == ExtractElements

SpecExtract == InitExtract /\ [][NextExtract]_vars

\* ------------------------------------------------------------- properties
Raised == {"raised Exception", "raised FileNotFoundError"}

\* a step of ingest_graphql_docs (the environment leaves these unchanged)
CoordinatorStep == <<pc, outcome, trace, metaWrites>>' # <<pc, outcome, trace, metaWrites>>

\* the step in which ingest_graphql_docs is called
StartStep == pc = "idle" /\ CoordinatorStep

\* C1: once a pass has completed and while the tree is not changed, every
\* further run leaves the numbers of rows of documents, code_blocks and
\* graphql_elements what they were when that pass completed.
C1_Idempotent == clean => Counts = settled

\* a further run has been made on an unchanged tree, with rows in all tables
C1_Witness ==
    /\ clean
    /\ outcome = "skipped"
    /\ settled[1] > 0 /\ settled[2] > 0 /\ settled[3] > 0

\* C2 (as claimed): during a pass over a store that held documents and will
\* hold documents again, a reader never finds table documents empty.
C2_NoEmptyWindow ==
    ~ /\ pc \in PassSteps
      /\ before.documents # <<>>
      /\ parsed.documents # <<>>
      /\ documents = <<>>

\* C3 (as claimed): a pass that raised leaves the metadata as it was, and the
\* next invocation, the root being there, re-ingests instead of skipping.
C3_FailedPassRetried ==
    [][/\ (pc \in PassSteps /\ outcome' \in Raised) => metadata' = before.metadata
       /\ (StartStep /\ outcome \in Raised /\ rootExists) => outcome' = "running"]_vars

\* the decision the skip rule prescribes for an existing root
ExpectedReingest ==
    \/ "metadata" \notin tables
    \/ ~ \E r \in metadata : r.key = "last_ingestion"
    \/ \E r \in metadata :
          /\ r.key = "last_ingestion"
          /\ r.docs_directory_mtime # IsoFormat(FromTimestamp(LatestMtime(TRUE, files)))

\* C4: for an existing root, should_reingest answers true without a metadata
\* table or record, and otherwise false exactly when the stored
\* docs_directory_mtime is the ISO rendering of the current maximum mtime
\* (epoch zero for an empty tree), true for any other stored value.
C4_SkipDecision ==
    [][(StartStep /\ rootExists) =>
          /\ ExpectedReingest => outcome' = "running"
          /\ ~ExpectedReingest => outcome' = "skipped"]_vars

\* a run skipped an empty tree whose sentinel time is the stored one
C4_Witness ==
    /\ outcome = "skipped"
    /\ rootExists
    /\ \A p \in Paths : ~files[p].present
    /\ \E r \in metadata : r.docs_directory_mtime = IsoFormat(0)

\* the statements of a pass in the order of the code
CodeOrder == <<"create_tables", "new_parser", "walk_directory", "parse_all",
               "delete_code_blocks", "delete_graphql_elements", "delete_documents",
               "insert_documents", "insert_code_blocks", "insert_graphql_elements",
               "update_metadata">>

\* C5 (amended): a pass ensures the schema, builds the parser, counts the
\* files, runs parse_all, then deletes code_blocks, graphql_elements and
\* documents, then inserts documents, code_blocks and graphql_elements, then
\* upserts the metadata; each statement starts when the one before is done,
\* and no metadata is written before the last one.
C5_PassOrderOfCode ==
    pc \in PassSteps =>
        /\ Append(trace, pc) = Take(CodeOrder, Len(trace) + 1)
        /\ metadata = before.metadata

\* a pass stands at its last statement, all others done
C5_Witness ==
    /\ pc = "update_metadata"
    /\ trace = Take(CodeOrder, 10)
    /\ documents # <<>>

\* C5 (as claimed): the parser runs after the deletes.
C5_ParseAfterDeletes ==
    pc = "parse_all" => "delete_documents" \in Range(trace)

\* C6 (as claimed): an invocation that finds the root missing, at the skip
\* check, at the construction of the parser, at the walk or at the parse,
\* returns without raising and leaves the database as it was when called.
C6_MissingRootIsSoft ==
    [][(/\ ~rootExists
        /\ pc \in {"idle", "new_parser", "walk_directory", "parse_all"}
        /\ CoordinatorStep
        /\ outcome' # "raised Exception")
       => /\ pc' = "idle"
          /\ outcome' \in {"skipped", "returned on FileNotFoundError"}
          /\ Database' = (IF pc = "idle" THEN Database ELSE before)]_vars

\* the tree without the files whose processing raises
WithoutFailing(fs) ==
    [p \in DOMAIN fs |-> IF fs[p].present /\ ~Content(fs[p].body).ok
                     THEN NoFile ELSE fs[p]]

\* C7: whatever files fail to parse, parse_all does not raise and returns
\* what it returns for the tree without those files.
C7_FailuresSkipped ==
    [][(pc = "parse_all" /\ CoordinatorStep) =>
          /\ pc' = "delete_code_blocks"
          /\ parsed' = parse_all(rootExists, WithoutFailing(files))]_vars

\* parse_all has run over a tree with a failing file and returned the other
C7_Witness ==
    /\ pc = "delete_code_blocks"
    /\ edits = 1
    /\ files[IndexMd] = File(1, "bad")
    /\ Len(parsed.documents) = 1
    /\ parsed.documents[1].file_path = ProductsMd

\* C8: table metadata holds at most one row, of key last_ingestion; a pass
\* that completes has upserted it once, and an invocation that skips, aborts
\* or is still running has not written it.
C8_MetadataSingleton ==
    /\ Cardinality(metadata) <= 1
    /\ \A r \in metadata : r.key = "last_ingestion"
    /\ outcome = "complete" => metaWrites = 1
    /\ outcome # "complete" => metaWrites = 0
    /\ pc \in PassSteps => metadata = before.metadata

\* a pass over an edited tree of one file has completed, and table metadata
\* holds the one row it upserted
C8_Witness ==
    /\ outcome = "complete"
    /\ metaWrites = 1
    /\ Cardinality(metadata) = 1
    /\ \E r \in metadata : r.total_files = 1
    /\ edits = 1
    /\ Cardinality({p \in Paths : files[p].present}) = 1
    /\ Len(documents) = 1

\* the relative paths of the files of a tree that parse_all turns into documents
ParsedPaths(fs) == {p \in DOMAIN fs : fs[p].present /\ Content(fs[p].body).ok}

\* C9: after a successful ingestion, get_document called with the relative
\* path P of a file that was parsed returns the rendering of a document whose
\* path is P, never the not-found message.
C9_ExactFetchRoundTrip ==
    (clean /\ reply.op = "get_document" /\ reply.args[1] \in ParsedPaths(files))
        => /\ reply.status = "found"
           /\ reply.rows[1].path = reply.args[1]

\* get_document has fetched a document that lies three directories deep
C9_Witness ==
    /\ clean
    /\ reply.op = "get_document"
    /\ reply.args[1] = ProductsMd
    /\ reply.status = "found"
    /\ reply.rows[1].path = ProductsMd

\* the words of each query of a list
WordsOf(queries) == [i \in 1..Len(queries) |-> SelectSeq(queries[i], IsWord)]

\* no row of the store matches the arguments of the last call
ZeroRowsMatch ==
    CASE reply.op \in {"get_document", "get_related_documents"} ->
            \A i \in 1..Len(documents) : documents[i].file_path # reply.args[1]
      [] reply.op = "search_documentation" ->
            \A i \in 1..Len(documents) :
                ~FtsMatch(documents[i].searchable_text, WordsOf(reply.args[1]))
      [] reply.op = "search_graphql_elements" ->
            \A i \in 1..Len(graphql_elements) :
                ~FtsMatch(ElementTokens(graphql_elements[i]),
                          WordsOf(<<reply.args[1]>>))
      [] reply.op = "get_element_details" ->
            \A i \in 1..Len(graphql_elements) :
                graphql_elements[i].name # reply.args[1]
      [] reply.op = "get_tutorial" ->
            \A i \in 1..Len(documents) :
                \/ documents[i].category # "tutorials"
                \/ /\ documents[i].subcategory # reply.args[1]
                   /\ ~PathLikeTutorial(documents[i].file_path, reply.args[1])
      [] reply.op = "search_examples" ->
            \A i \in 1..Len(code_blocks) :
                \A k \in 1..Len(CodeTokens(code_blocks[i].code)) :
                    ~Contains(CodeTokens(code_blocks[i].code)[k], reply.args[1])
      [] OTHER -> FALSE

\* C10: on an ingested store, a call of one of the seven query tools whose
\* arguments match no row returns the tool's not-found message; it does not
\* raise.
C10_NotFoundIsValue ==
    (clean /\ reply.op # "none" /\ ZeroRowsMatch) => reply.status = "not_found"

\* the row of the store a rendered or ranked path belongs to
DocumentAt(file_path) == DocumentByPath(file_path)[1]

\* a path whose document passes the filters of the last call of search_documentation
PassesFilters(file_path) ==
    /\ Given(reply.args[2]) => DocumentAt(file_path).category = reply.args[2]
    /\ Given(reply.args[3]) => DocumentAt(file_path).subcategory = reply.args[3]
    /\ Given(reply.args[4]) => DocumentAt(file_path).content_type = reply.args[4]

\* C11: every document search_documentation returns has the requested value
\* in each attribute a filter was given for, however many documents the
\* full-text search matched.
C11_FilterSoundness ==
    reply.op = "search_documentation" =>
        \A i \in 1..Len(reply.rows) :
            /\ Given(reply.args[2]) => reply.rows[i].category = reply.args[2]
            /\ Given(reply.args[3]) => reply.rows[i].subcategory = reply.args[3]
            /\ Given(reply.args[4]) => reply.rows[i].type = reply.args[4]

\* a filtered search has returned documents while the full-text search had
\* matched more rows than that, some of them of another category
C11_Witness ==
    /\ reply.op = "search_documentation"
    /\ reply.status = "found"
    /\ Given(reply.args[2])
    /\ Len(reply.ranked) > Len(reply.rows)
    /\ \E i \in 1..Len(reply.ranked) :
           DocumentAt(reply.ranked[i]).category # reply.args[2]

\* C12: search_documentation returns at most DB_TOP_K documents: the first
\* DB_TOP_K, in rank order, of the documents that pass all filters among the
\* first DB_TOP_K * SEARCH_RESULT_MULTIPLIER full-text hits.
C12_OverFetchFilterTruncate ==
    (reply.op = "search_documentation" /\ reply.status # "raised") =>
        LET window == Take(reply.ranked, DB_TOP_K * SEARCH_RESULT_MULTIPLIER)
            expected == Take(SelectSeq(window, PassesFilters), DB_TOP_K)
        IN  /\ Len(reply.rows) <= DB_TOP_K
            /\ [i \in 1..Len(reply.rows) |-> reply.rows[i].path] = expected

\* fewer than DB_TOP_K documents were returned although a document ranked
\* beyond the over-fetch window matches the query and passes the filters
C12_Witness ==
    /\ reply.op = "search_documentation"
    /\ reply.status # "raised"
    /\ Len(reply.rows) < DB_TOP_K
    /\ \E i \in 1..Len(reply.ranked) :
           /\ i > DB_TOP_K * SEARCH_RESULT_MULTIPLIER
           /\ PassesFilters(reply.ranked[i])

\* C13: the documents get_related_documents lists never include the source
\* document, and no file path is listed twice.
C13_RelatedExcludesSourceAndDuplicates ==
    reply.op = "get_related_documents" =>
        /\ \A i \in 1..Len(reply.rows) : reply.rows[i].path # reply.args[1]
        /\ \A i, j \in 1..Len(reply.rows) :
               reply.rows[i].path = reply.rows[j].path => i = j

\* the related documents of the products page are listed, and the types page,
\* which shares its category, subcategory and a keyword, is listed once
C13_Witness ==
    /\ reply.op = "get_related_documents"
    /\ reply.status = "found"
    /\ reply.args[1] = ProductsMd
    /\ DocumentByPath(TypesMd) # <<>>
    /\ DocumentAt(TypesMd).subcategory = DocumentAt(ProductsMd).subcategory
    /\ KeywordsLike(DocumentAt(TypesMd), "products")
    /\ Cardinality({i \in 1..Len(reply.rows) : reply.rows[i].path = TypesMd}) = 1

\* the place of a path among the paths of the model ordered as strings
PathRank(file_path) == CHOOSE k \in 1..Len(SortedPaths) : SortedPaths[k] = file_path

\* the documents get_tutorial selects for a name
TutorialDocuments(tutorial_name) ==
    {i \in 1..Len(documents) :
        /\ documents[i].category = "tutorials"
        /\ \/ documents[i].subcategory = tutorial_name
           \/ PathLikeTutorial(documents[i].file_path, tutorial_name)}

\* C14: get_tutorial lists the selected documents in ascending order of their
\* file paths, as strings, and numbers them 1..n, n being the number of
\* selected documents.
C14_TutorialSequencing ==
    (reply.op = "get_tutorial" /\ reply.status = "found") =>
        /\ Len(reply.rows) = Cardinality(TutorialDocuments(reply.args[1]))
        /\ \A i \in 1..Len(reply.rows) : reply.rows[i].step = i
        /\ \A i, j \in 1..Len(reply.rows) :
               i < j => PathRank(reply.rows[i].file) < PathRank(reply.rows[j].file)

\* three files under tutorials/checkout are listed as steps 1, 2, 3 in the
\* order of their paths, which is not the order in which they were ingested
C14_Witness ==
    /\ reply.op = "get_tutorial"
    /\ reply.args[1] = "checkout"
    /\ Len(reply.rows) = 3
    /\ reply.rows[1].file = Step1Md /\ reply.rows[1].step = 1
    /\ reply.rows[2].file = Step10Md /\ reply.rows[2].step = 2
    /\ reply.rows[3].file = Step2Md /\ reply.rows[3].step = 3
    /\ \E i, j \in 1..Len(documents) :
           i < j /\ documents[i].file_path = Step2Md /\ documents[j].file_path = Step1Md

\* the tree holds schema/products/queries/products.md, with the front-matter
\* title Products Query and the one graphql block, and nothing else; a pass
\* that listed and parsed this tree has completed
ScenarioIngested ==
    /\ clean
    /\ rootExists
    /\ edits = 1
    /\ files[ProductsMd] = File(1, "gql")
    /\ ~files[IndexMd].present
    /\ \E r \in metadata : r.total_files = 1

\* C15: that tree is ingested into exactly one document (category schema,
\* subcategory products, content type schema), one code block of language
\* graphql and one element of kind query named products whose fields contain
\* items, sku and name.
C15_EndToEndScenario ==
    ScenarioIngested =>
        /\ Len(documents) = 1
        /\ documents[1].title = <<"Products Query">>
        /\ documents[1].category = "schema"
        /\ documents[1].subcategory = "products"
        /\ documents[1].content_type = "schema"
        /\ Len(code_blocks) = 1
        /\ code_blocks[1].language = "graphql"
        /\ Len(graphql_elements) = 1
        /\ graphql_elements[1].element_type = "query"
        /\ graphql_elements[1].name = "products"
        /\ {"items", "sku", "name"} \subseteq JsonLoads(graphql_elements[1].fields_json)

\* the places of a code body where the token mutation is followed by an
\* identifier
MutationDeclarations(toks) ==
    {i \in 1..(Len(toks) - 1) : toks[i] = "mutation" /\ IsIdentifier(toks[i + 1])}

\* C16: from a graphql code body that contains the token mutation followed by
\* an identifier, extract_graphql_elements yields an element of type mutation
\* named by the identifier of the first such occurrence.
C16_MutationExtracted ==
    trace = <<"extract_graphql_elements">> =>
        LET toks == CodeTokens(parsed.code_blocks[1].code)
            found == MutationDeclarations(toks)
        IN  found # {} =>
                \E k \in 1..Len(parsed.graphql_elements) :
                    /\ parsed.graphql_elements[k].element_type = "mutation"
                    /\ parsed.graphql_elements[k].name = toks[SetMin(found) + 1]

\* the fence lines of a markdown body that open a block: the first, the third,
\* ... of its fence lines
OpeningFences(lines) ==
    LET fences == SelectSeq(lines, LAMBDA l : l.k = "fence")
    IN  [k \in 1..((Len(fences) + 1) \div 2) |-> fences[2 * k - 1]]

\* the languages of the rows of code_blocks of a document, in row order
StoredLanguages(doc) ==
    LET blocks == SelectSeq(code_blocks, LAMBDA b : b.document_id = doc.id)
    IN  [k \in 1..Len(blocks) |-> blocks[k].language]

\* C17: the language of a stored code block is text when its opening fence
\* declares none, and the lower-cased text after the fence marker otherwise;
\* it is never empty.
C17_LanguageDefaultsToText ==
    (pc = "idle" /\ outcome = "complete") =>
        /\ \A k \in 1..Len(code_blocks) : code_blocks[k].language # ""
        /\ \A i \in 1..Len(documents) :
               LET opening == OpeningFences(documents[i].content_md)
               IN  StoredLanguages(documents[i]) =
                       [k \in 1..Len(opening) |->
                           IF opening[k].t[1] = "" THEN "text"
                           ELSE Lower(opening[k].t[1])]

\* the types page, whose blocks are fenced with the tag GraphQL and with no
\* tag, is stored with the languages graphql and text
C17_Witness ==
    /\ pc = "idle" /\ outcome = "complete"
    /\ \E i \in 1..Len(documents) :
           /\ documents[i].file_path = TypesMd
           /\ [k \in 1..2 |-> OpeningFences(documents[i].content_md)[k].t[1]]
                  = <<"GraphQL", "">>
           /\ StoredLanguages(documents[i]) = <<"graphql", "text">>

\* C18: the key of a document is the digest of its relative path, whatever
\* the file's content and mtime, and no two rows of documents share a file
\* path or a key.
C18_DocumentIdentity ==
    /\ \A i \in 1..Len(documents) :
           documents[i].id = <<"sha256", documents[i].file_path>>
    /\ \A i, j \in 1..Len(documents) :
           (\/ documents[i].file_path = documents[j].file_path
            \/ documents[i].id = documents[j].id) => i = j

\* after index.md was rewritten with another content and mtime, a pass has
\* stored it, with the key of its path, next to a second document
C18_Witness ==
    /\ outcome = "complete"
    /\ Len(documents) = 2
    /\ files[IndexMd] = File(2, "gql")
    /\ \E i \in 1..2 :
           /\ documents[i].file_path = IndexMd
           /\ documents[i].content_md = ContentGql.lines
           /\ documents[i].last_modified = IsoFormat(FromTimestamp(2))
           /\ documents[i].id = <<"sha256", IndexMd>>

\* C19 (as claimed): when a pass raises, at whatever statement, documents,
\* code_blocks and graphql_elements hold the rows they held when the pass
\* started.
C19_StatePreservedOnFailure ==
    [][(pc \in PassSteps /\ outcome' \in Raised)
       => /\ documents' = before.documents
          /\ code_blocks' = before.code_blocks
          /\ graphql_elements' = before.graphql_elements]_vars

\* the file paths of the rows of documents
StoredPaths(rows) == {rows[i].file_path : i \in 1..Len(rows)}

\* C20 (as claimed): whenever a run returns normally, by skipping or by
\* completing a pass over the tree as it stands, the file paths in documents
\* are the paths of the files of the tree that parse.
C20_StoreTracksCorpus ==
    [][/\ (StartStep /\ rootExists /\ outcome' = "skipped")
            => StoredPaths(documents') = ParsedPaths(files')
       /\ (/\ pc = "update_metadata"
           /\ outcome' = "complete"
           /\ parsed = parse_all(rootExists, files))
            => StoredPaths(documents') = ParsedPaths(files')]_vars

\* the newest last_modified among the documents a pass parsed (0 when none)
ParsedMtime(docs) ==
    IF docs = <<>> THEN 0
    ELSE SetMax({docs[i].last_modified : i \in 1..Len(docs)})

\* C21 (as claimed): the docs_directory_mtime a completing pass writes is the
\* newest modification time among the file versions the pass parsed, and when
\* a file was rewritten with a newer modification time after parse_all read it,
\* the run after the pass re-ingests instead of skipping (trees whose files
\* all parse).
C21_RecordedMtimeIsParsedMtime ==
    [][(/\ pc = "update_metadata"
        /\ outcome' = "complete"
        /\ \A p \in Paths : files[p].present => Content(files[p].body).ok) =>
          /\ \A r \in metadata' :
                r.docs_directory_mtime = IsoFormat(ParsedMtime(parsed.documents))
          /\ (rootExists /\ FromTimestamp(LatestMtime(rootExists, files))
                                > ParsedMtime(parsed.documents))
                => should_reingest(rootExists', files', tables', metadata')]_vars

\* the ids of the rows of documents
DocumentIds == {documents[i].id : i \in 1..Len(documents)}

\* C22: in every state of the store, between the statements of a pass and
\* after a pass that raised included, every row of code_blocks and every row
\* of graphql_elements carries the id of a row of documents.
C22_ReferentialIntegrity ==
    /\ \A i \in 1..Len(code_blocks) : code_blocks[i].document_id \in DocumentIds
    /\ \A i \in 1..Len(graphql_elements) :
          graphql_elements[i].document_id \in DocumentIds

\* a pass over an ingested store raised after it inserted the code blocks and
\* before it inserted the elements
C22_Witness ==
    /\ outcome = "raised Exception"
    /\ pc = "idle"
    /\ metadata # {}
    /\ documents # <<>>
    /\ code_blocks # <<>>
    /\ graphql_elements = <<>>

\* the paragraph above the fence at line f (1-based) of a document, as the
\* claim describes it: the contiguous text lines directly above the fence,
\* at most 5, joined in order; no context when there is none
ParagraphAbove(lines, f) ==
    LET above == {j \in 1..(f - 1) :
                     /\ f - j <= 5
                     /\ \A x \in j..(f - 1) : lines[x].k = "text"}
    IN  IF above = {} THEN NoContext
        ELSE <<Flatten([x \in 1..(f - SetMin(above)) |->
                           Stripped(lines[SetMin(above) + x - 1])])>>

\* C23 (as claimed): the context of every stored code block is the paragraph
\* directly above its opening fence, and is absent when the line above the
\* fence is blank or a heading or the fence is the first line; it never
\* holds the fence line.
C23_ContextIsPrecedingParagraph ==
    \A i \in 1..Len(code_blocks) : \A d \in 1..Len(documents) :
        documents[d].id = code_blocks[i].document_id =>
            /\ code_blocks[i].context =
                  ParagraphAbove(documents[d].content_md, code_blocks[i].line_number - 1)
            /\ \A c \in Range(code_blocks[i].context) : FenceMark \notin Range(c)

\* ------------------------------- the server on a tree of several categories
\* The body each file of such a tree has when it is there.
RelatedBody(p) ==
    CASE p = ProductsMd -> "gql"
      [] p = TypesMd -> "types"
      [] p = CartMd -> "cart"
      [] p = Step1Md -> "step"
      [] OTHER -> "plain"

RelatedCorpora ==
    {[p \in RelatedPaths |-> IF p \in there THEN File(1, RelatedBody(p)) ELSE NoFile] :
        there \in {t \in SUBSET RelatedPaths :
                      OtherPages \subseteq t \/ OtherPages \cap t = {}}}

InitRelated ==
    /\ rootExists = TRUE
    /\ files \in RelatedCorpora
    /\ edits = 0
    /\ tables = {}
    /\ metadata = {}
    /\ documents = <<>>
    /\ code_blocks = <<>>
    /\ graphql_elements = <<>>
    /\ pc = "idle"
    /\ total_files = 0
    /\ parsed = NoneParsed
    /\ outcome = "none"
    /\ trace = <<>>
    /\ before = NoDatabase
    /\ metaWrites = 0
    /\ clean = FALSE
    /\ settled = <<0, 0, 0>>
    /\ reply = NoReply

\* server_lifespan runs ingest_graphql_docs to its end, then
\* get_related_documents is called
NextRelated ==
    \/ Start
    \/ CreateTables
    \/ NewParser
    \/ WalkDirectory
    \/ ParseAll
    \/ DeleteCodeBlocks
    \/ DeleteGraphqlElements
    \/ DeleteDocuments
    \/ InsertDocuments
    \/ InsertCodeBlocks
    \/ InsertGraphqlElements
    \/ UpdateMetadata
    \/ \E file_path \in RelatedPaths \cup {MissingMd} : get_related_documents(file_path)

SpecRelated == InitRelated /\ [][NextRelated]_vars

\* C24 (as claimed): a document listed by get_related_documents is labelled
\* Same category exactly when it has the category and the subcategory of the
\* source document, and Similar content otherwise, a keyword hit of the same
\* category and another subcategory included.
C24_LabelFollowsBranch ==
    (reply.op = "get_related_documents" /\ reply.status = "found") =>
        \A i \in 1..Len(reply.rows) :
            LET source_doc == DocumentAt(reply.args[1])
                sibling == /\ reply.rows[i].category = source_doc.category
                           /\ reply.rows[i].subcategory = source_doc.subcategory
            IN  reply.rows[i].relationship =
                    (IF sibling THEN "Same category" ELSE "Similar content")

\* the rows a documents query WHERE keep ... LIMIT n returns
SelectLimit(keep(_), n) == Take(SelectSeq(documents, keep), n)

\* the file paths the claimed composition lists for a source document: up to
\* 5 siblings, then up to 3 keyword hits for each of the first three keywords
\* in the order of the document's keyword list, later duplicates removed, at
\* most 5 in all
ComposedPaths(source_doc) ==
    LET siblings == SelectLimit(LAMBDA d : /\ d.category = source_doc.category
                                           /\ d.subcategory = source_doc.subcategory
                                           /\ d.file_path # source_doc.file_path, 5)
        keywords == Take(JsonLoads(source_doc.keywords_json), 3)
        hits == Flatten([k \in 1..Len(keywords) |->
                    SelectLimit(LAMBDA d : /\ KeywordsLike(d, keywords[k])
                                           /\ d.file_path # source_doc.file_path, 3)])
        all == Take(Deduplicate(siblings \o hits, {}), 5)
    IN  [i \in 1..Len(all) |-> all[i].file_path]

\* C25 (as claimed): for a source document that has a subcategory,
\* get_related_documents lists exactly the claimed composition, in its order,
\* with the keywords taken in the order of the document's keyword list.
C25_RelatedComposition ==
    (/\ reply.op = "get_related_documents"
     /\ reply.status \in {"found", "not_found"}
     /\ DocumentByPath(reply.args[1]) # <<>>
     /\ DocumentAt(reply.args[1]).subcategory # NULL) =>
        [i \in 1..Len(reply.rows) |-> reply.rows[i].path]
            = ComposedPaths(DocumentAt(reply.args[1]))

\* the documents other than the source that have its category and, like it,
\* no subcategory
BareSiblings(source_doc) ==
    {i \in 1..Len(documents) : /\ documents[i].category = source_doc.category
                               /\ documents[i].subcategory = NULL
                               /\ documents[i].file_path # source_doc.file_path}

\* C26 (as claimed): for a source document without subcategory that has a
\* document of the same category and no subcategory beside it,
\* get_related_documents lists such a document and does not answer that no
\* related documents were found.
C26_SiblingsWithoutSubcategory ==
    (/\ reply.op = "get_related_documents"
     /\ reply.status \in {"found", "not_found"}
     /\ DocumentByPath(reply.args[1]) # <<>>
     /\ DocumentAt(reply.args[1]).subcategory = NULL
     /\ BareSiblings(DocumentAt(reply.args[1])) # {}) =>
        /\ reply.status = "found"
        /\ \E i \in 1..Len(reply.rows) :
              \E d \in BareSiblings(DocumentAt(reply.args[1])) :
                  reply.rows[i].path = documents[d].file_path

\* the place of a kind in the order in which the code looks for the kinds
KindRank(kind) ==
    CASE kind = "query" -> 1 [] kind = "mutation" -> 2 [] kind = "type" -> 3
      [] kind = "interface" -> 4 [] OTHER -> 0

\* the elements extracted for the blocks of a document
ElementsOwnedBy(document_id) ==
    SelectSeq(parsed.graphql_elements, LAMBDA e : e.document_id = document_id)

\* C27: the elements extracted from a code body come in the order query,
\* mutation, type, interface with no kind twice, so at most four; each has a
\* non-empty name and one of the four kinds; a block whose language is not
\* graphql yields none, and every element carries the key of the document
\* that owns a graphql block.
C27_ElementShape ==
    trace = <<"extract_graphql_elements">> =>
        /\ \A b \in 1..Len(parsed.code_blocks) :
              LET elems == ElementsOwnedBy(parsed.code_blocks[b].document_id)
              IN  /\ parsed.code_blocks[b].language # "graphql" => elems = <<>>
                  /\ Len(elems) <= 4
                  /\ \A i, j \in 1..Len(elems) :
                        i < j => KindRank(elems[i].element_type)
                                    < KindRank(elems[j].element_type)
        /\ \A k \in 1..Len(parsed.graphql_elements) :
              /\ parsed.graphql_elements[k].name # ""
              /\ KindRank(parsed.graphql_elements[k].element_type) > 0
              /\ \E b \in 1..Len(parsed.code_blocks) :
                    /\ parsed.code_blocks[b].language = "graphql"
                    /\ parsed.code_blocks[b].document_id
                          = parsed.graphql_elements[k].document_id

\* a body that declares an interface, a type, a mutation and a query, in
\* that order, has yielded four elements, query first, beside a json block
\* that declares a type and yielded none
C27_Witness ==
    /\ trace = <<"extract_graphql_elements">>
    /\ CodeTokens(parsed.code_blocks[1].code)[1] = "interface"
    /\ parsed.code_blocks[2].language = "json"
    /\ Len(parsed.graphql_elements) = 4
    /\ parsed.graphql_elements[1].element_type = "query"
    /\ parsed.graphql_elements[4].element_type = "interface"
    /\ ElementsOwnedBy(Sha256(TypesMd)) = <<>>

\* the tokens of the code of the block an element was extracted from
OwnerTokens(element) ==
    LET b == CHOOSE i \in 1..Len(parsed.code_blocks) :
                 parsed.code_blocks[i].document_id = element.document_id
    IN  CodeTokens(parsed.code_blocks[b].code)

\* C28: the fields of every extracted element are at most
\* MAX_FIELDS_PER_ELEMENT identifiers, each standing in the code directly
\* before an opening parenthesis, a colon or an opening brace; the parameters
\* of a query or mutation are exactly the names written as $name: in the
\* code, and a type or interface has none.
C28_FieldsAndParameters ==
    trace = <<"extract_graphql_elements">> =>
        \A k \in 1..Len(parsed.graphql_elements) :
            LET e == parsed.graphql_elements[k]
                toks == OwnerTokens(e)
                sigils == {j \in 1..(Len(toks) - 2) :
                              toks[j] = "$" /\ IsWord(toks[j + 1]) /\ toks[j + 2] = ":"}
            IN  /\ Cardinality(e.fields) <= MAX_FIELDS_PER_ELEMENT
                /\ \A f \in e.fields :
                      /\ IsIdentifier(f)
                      /\ \E j \in 1..(Len(toks) - 1) :
                            toks[j] = f /\ toks[j + 1] \in {"(", ":", "{"}
                /\ e.element_type \in {"query", "mutation"}
                      => e.parameters = {toks[j + 1] : j \in sigils}
                /\ e.element_type \in {"type", "interface"} => e.parameters = {}

\* a type with 21 fields has been extracted and keeps 20 of them, and the
\* other block, which writes no parameter, is graphql and yielded a type
C28_Witness ==
    /\ trace = <<"extract_graphql_elements">>
    /\ Len(parsed.graphql_elements) = 2
    /\ parsed.graphql_elements[1].name = "Wide"
    /\ Cardinality(parsed.graphql_elements[1].fields) = MAX_FIELDS_PER_ELEMENT
    /\ parsed.graphql_elements[2].name = "Hidden"
    /\ parsed.graphql_elements[2].parameters = {}

\* C29: every stored document of a path of one segment has category root and
\* no subcategory; of two segments, its first segment as category and no
\* subcategory; of three or more, its first segment as category and its
\* second as subcategory; the category is never null.
C29_CategoryFromPathDepth ==
    \A i \in 1..Len(documents) :
        LET parts == documents[i].file_path
        IN  /\ documents[i].category # NULL
            /\ Len(parts) = 1 =>
                  documents[i].category = "root" /\ documents[i].subcategory = NULL
            /\ Len(parts) = 2 =>
                  documents[i].category = parts[1] /\ documents[i].subcategory = NULL
            /\ Len(parts) >= 3 =>
                  documents[i].category = parts[1] /\ documents[i].subcategory = parts[2]

\* the store holds documents of paths of one, two, three and four segments
C29_Witness ==
    /\ outcome = "complete"
    /\ \A n \in 1..4 : \E i \in 1..Len(documents) : Len(documents[i].file_path) = n
    /\ DocumentByPath(SchemaIndexMd) # <<>>
    /\ DocumentAt(SchemaIndexMd).category = "schema"
    /\ DocumentAt(SchemaIndexMd).subcategory = NULL

\* a path contains reference, whatever the case of its letters
MentionsReference(file_path) ==
    \E i \in 1..Len(file_path) :
        file_path[i] \in {"reference", "reference.md", "Reference", "api-reference"}

\* C30: the content_type of every stored document is never null and is schema
\* for category schema, tutorial for tutorials, guide for develop and usage,
\* and for any other category reference when the path contains reference in
\* any case, guide otherwise.
C30_ContentClassification ==
    \A i \in 1..Len(documents) :
        LET doc == documents[i]
        IN  /\ doc.content_type # NULL
            /\ doc.content_type \in {"schema", "tutorial", "guide", "reference"}
            /\ doc.content_type =
                  (CASE doc.category = "schema" -> "schema"
                     [] doc.category = "tutorials" -> "tutorial"
                     [] doc.category \in {"develop", "usage"} -> "guide"
                     [] OTHER -> IF MentionsReference(doc.file_path)
                                 THEN "reference" ELSE "guide")

\* the store holds a reference page of another category, written Reference,
\* beside reference pages of schema, develop and usage and a plain guide
C30_Witness ==
    /\ outcome = "complete"
    /\ DocumentByPath(<<"payment-methods", "Reference", "braintree.md">>) # <<>>
    /\ DocumentAt(<<"payment-methods", "Reference", "braintree.md">>).content_type
          = "reference"
    /\ DocumentByPath(<<"develop", "reference.md">>) # <<>>
    /\ DocumentAt(<<"develop", "reference.md">>).content_type = "guide"
    /\ DocumentByPath(CartMd) # <<>>
    /\ DocumentAt(CartMd).content_type = "schema"
    /\ DocumentByPath(Step1Md) # <<>>
    /\ DocumentByPath(IndexMd) # <<>>
    /\ DocumentAt(IndexMd).content_type = "guide"

====
